---- MODULE Spec2Model ----
(***************************************************************************)
(* WebCryptoFunctionService (src/src/services/webCryptoFunction.service.ts) *)
(* as a state machine: every facade call is a process with its own locals,  *)
(* suspended at each await of the native backend (window.crypto.subtle) and *)
(* run to completion in one step on the software backend (node-forge).      *)
(* A second specification, SpecBridge, applies the byte-bridge helpers      *)
(* (toBuf, toByteString, Utils.fromByteStringToArray) to bounded inputs.    *)
(***************************************************************************)
EXTENDS Integers, Sequences, FiniteSets, TLC

(***************************************************************************)
(* Values.  A JavaScript value handed to the facade is either a string      *)
(* (typeof v === 'string': a sequence of code units; well-formed text is    *)
(* modelled by its code points) or an ArrayBuffer (a sequence of bytes).    *)
(* A forge "byte string" is a string too: one code unit per byte.           *)
(***************************************************************************)
Str(units) == [type |-> "string", units |-> units]

Buf(bytes) == [type |-> "buffer", bytes |-> bytes]

\* Longest text / buffer the byte-bridge specification draws.
MaxLen == 2

\* Number of facade calls that can be in flight at once.
MaxCalls == 2

RECURSIVE Concat(_)
Concat(seqs) == IF seqs = <<>> THEN <<>> ELSE Head(seqs) \o Concat(Tail(seqs))

RECURSIVE Sum(_)
Sum(s) == IF s = <<>> THEN 0 ELSE Head(s) + Sum(Tail(s))

\* The UTF-8 encoding of one code point (1 to 4 bytes).
Utf8(cp) ==
    IF cp < 128 THEN <<cp>>
    ELSE IF cp < 2048 THEN <<192 + (cp \div 64), 128 + (cp % 64)>>
    ELSE IF cp < 65536
         THEN <<224 + (cp \div 4096), 128 + ((cp \div 64) % 64), 128 + (cp % 64)>>
    ELSE <<240 + (cp \div 262144), 128 + ((cp \div 4096) % 64),
           128 + ((cp \div 64) % 64), 128 + (cp % 64)>>

\* forge.util.encodeUtf8(str): the string whose code units are the UTF-8
\* bytes of str.  It encodes whatever string it is given, a byte string too.
encodeUtf8(s) == Str(Concat([i \in 1..Len(s.units) |-> Utf8(s.units[i])]))

\* Utils.fromUtf8ToArray(str).buffer: the UTF-8 bytes of str as a buffer.
fromUtf8ToArray(s) == Buf(Concat([i \in 1..Len(s.units) |-> Utf8(s.units[i])]))

\* Utils.fromBufferToByteString(buffer): String.fromCharCode of every byte.
fromBufferToByteString(b) == Str([i \in 1..Len(b.bytes) |-> b.bytes[i]])

\* Utils.fromByteStringToArray(str).buffer: a Uint8Array filled with
\* charCodeAt(i); a typed-array store keeps the low eight bits.
fromByteStringToArray(s) == Buf([i \in 1..Len(s.units) |-> s.units[i] % 256])

\* toByteString with the buffer branch re-encoding the bytes as UTF-8.
toByteStringReencoding(value) ==
    IF value.type = "string" THEN encodeUtf8(value)
    ELSE encodeUtf8(fromBufferToByteString(value))

toByteString(value) ==
    IF value.type = "string" THEN encodeUtf8(value)
    ELSE fromBufferToByteString(value)

\* toBuf taking the code units of a text for its bytes.
toBufCodeUnits(value) ==
    IF value.type = "string" THEN fromByteStringToArray(value) ELSE value

toBuf(value) ==
    IF value.type = "string" THEN fromUtf8ToArray(value) ELSE value

\* toWebCryptoAlgorithm with the last two names confused.
toWebCryptoAlgorithmConfused(algorithm) ==
    IF algorithm = "sha1" THEN "SHA-1"
    ELSE IF algorithm = "sha256" THEN "SHA-512" ELSE "SHA-256"

toWebCryptoAlgorithm(algorithm) ==
    IF algorithm = "sha1" THEN "SHA-1"
    ELSE IF algorithm = "sha256" THEN "SHA-256" ELSE "SHA-512"

(***************************************************************************)
(* The two backends, by their interface.  Output lengths are the real ones; *)
(* output contents are a deterministic stand-in for the cryptography (the   *)
(* same function of the same bytes on either backend).  Whether a backend   *)
(* step accepts its input is a property of the input, carried by the        *)
(* call's "fault" class: "key" is unusable key material, "data" is data     *)
(* the primitive refuses (for CBC decryption, a padding mismatch).          *)
(***************************************************************************)
Err(name, backend, step) == [name |-> name, backend |-> backend, step |-> step]

Ok(v) == [ok |-> TRUE, value |-> v]

Fail(e) == [ok |-> FALSE, error |-> e]

HashId(hash) == IF hash = "SHA-1" THEN 1 ELSE IF hash = "SHA-256" THEN 2 ELSE 3

DigestLen(hash) == IF hash = "SHA-1" THEN 20 ELSE IF hash = "SHA-256" THEN 32 ELSE 64

Bytes(len, seed) == [i \in 1..len |-> (seed + i) % 256]

Kdf(hash, pw, salt, iterations, len) ==
    Bytes(len, HashId(hash) + 3 * Sum(pw) + 5 * Sum(salt) + 7 * iterations)

Digest(hash, msg) == Bytes(DigestLen(hash), HashId(hash) + Sum(msg) + 11 * Len(msg))

Mac(hash, key, msg) == Bytes(DigestLen(hash), HashId(hash) + 13 * Sum(key) + Sum(msg))

CbcEncrypt(key, iv, data) ==
    Bytes(16 * ((Len(data) \div 16) + 1), 17 * Sum(key) + 19 * Sum(iv) + Sum(data))

\* The decrypted blocks, padding included.
CbcBlocks(key, iv, data) == Bytes(Len(data), 23 * Sum(key) + 29 * Sum(iv) + Sum(data))

\* The blocks with a valid padding taken off (at least one byte).
CbcUnpad(blocks) == SubSeq(blocks, 1, Len(blocks) - 1)

OaepEncrypt(hash, key, data) == Bytes(Len(key), HashId(hash) + 31 * Sum(key) + Sum(data))

OaepDecrypt(hash, key, data) == Bytes(1, HashId(hash) + 37 * Sum(key) + Sum(data))

NoHandle == [usage |-> "none"]

\* subtle.importKey(format, keyData, algorithm, false, [usage])
subtleImportKey(req, fault) ==
    IF fault = "key" THEN Fail(Err("DataError", "native", "importKey"))
    ELSE Ok([key |-> req.keyData.bytes, name |-> req.name, hash |-> req.hash,
             usage |-> req.usage, uses |-> 0])

\* subtle.deriveBits / sign / encrypt / decrypt (algorithm, key handle, ...)
subtlePrimitive(req, key, fault) ==
    IF key.usage # req.step \/ key.name # req.name
    THEN Fail(Err("InvalidAccessError", "native", req.step))
    ELSE IF fault = "data" THEN Fail(Err("OperationError", "native", req.step))
    ELSE IF req.step = "deriveBits"
    THEN Ok(Buf(Kdf(req.hash, key.key, req.salt.bytes, req.iterations, req.len \div 8)))
    ELSE IF req.step = "sign" THEN Ok(Buf(Mac(key.hash, key.key, req.data.bytes)))
    ELSE IF req.name = "AES-CBC" /\ req.step = "encrypt"
    THEN Ok(Buf(CbcEncrypt(key.key, req.iv.bytes, req.data.bytes)))
    ELSE IF req.name = "AES-CBC"
    THEN Ok(Buf(CbcUnpad(CbcBlocks(key.key, req.iv.bytes, req.data.bytes))))
    ELSE IF req.step = "encrypt" THEN Ok(Buf(OaepEncrypt(key.hash, key.key, req.data.bytes)))
    ELSE Ok(Buf(OaepDecrypt(key.hash, key.key, req.data.bytes)))

\* subtle.digest(algorithm, data)
subtleDigest(hash, data, fault) ==
    IF fault = "data" THEN Fail(Err("OperationError", "native", "digest"))
    ELSE Ok(Buf(Digest(hash, data.bytes)))

\* forge.md.algorithms: the digest a forge algorithm name stands for.
forgeMd(name) ==
    IF name = "sha1" THEN "SHA-1" ELSE IF name = "sha256" THEN "SHA-256" ELSE "SHA-512"

\* forge.pbkdf2(p, s, c, dkLen, md): a byte string of dkLen bytes.
forgePbkdf2(p, s, c, dkLen, md, fault) ==
    IF fault # "none" THEN Fail(Err("Error", "software", "pbkdf2"))
    ELSE Ok(Str(Kdf(forgeMd(md), p.units, s.units, c, dkLen)))

(***************************************************************************)
(* The facade.                                                              *)
(***************************************************************************)
VARIABLES
    isEdge,     \* this.isEdge, captured by the constructor
    pc,         \* per call: "idle", "importKey", "primitive" (awaiting it), "done"
    op,         \* per call: the method called
    args,       \* per call: its arguments
    impKey,     \* per key slot: the handle `const impKey` holds (0: none yet)
    handles,    \* per handle: the imported key behind it (handle c: imported by call c)
    outcome,    \* per call: how the returned promise settled
    log,        \* per call: the backend steps it invoked, in order
    bpc,        \* byte bridge: what has been applied to bValue
    bValue,     \* byte bridge: the input value
    bString,    \* byte bridge: toByteString(bValue)
    bBuf,       \* byte bridge: toBuf(bValue)
    bBack       \* byte bridge: fromByteStringToArray(bString)

vars == <<isEdge, pc, op, args, impKey, handles, outcome, log,
          bpc, bValue, bString, bBuf, bBack>>

facadeVars == <<isEdge, pc, op, args, impKey, handles, outcome, log>>

bridgeVars == <<bpc, bValue, bString, bBuf, bBack>>

CallIds == 1..MaxCalls

Pending == [status |-> "pending"]

Resolved(buffer) == [status |-> "resolved", value |-> buffer]

Rejected(error) == [status |-> "rejected", error |-> error]

\* A backend step as the log keeps it: which backend, which step, the digest
\* it was asked for, the key handle it was given, the output length asked,
\* and how it ended: "pending", "ok", "threw" (with the error: an exception
\* or a rejected promise) or "false" (it returned false).
NoError == [name |-> "none"]

Step(bk, step, hash, handle, len, result, error) ==
    [backend |-> bk, step |-> step, hash |-> hash, handle |-> handle, len |-> len,
     result |-> result, error |-> error]

Done(bk, step, hash, len) == Step(bk, step, hash, 0, len, "ok", NoError)

Threw(bk, step, hash, len, error) == Step(bk, step, hash, 0, len, "threw", error)

\* The error caught and thrown again as a new one.
propagateWrapped(error) == Rejected(Err("Error", "facade", error.step))

\* An error thrown or a rejected await inside an async method, with no
\* try/catch around it, rejects the method's promise with that same error.
propagate(error) == Rejected(error)

\* The isEdge test the wrong way round.
backendInverted(o) ==
    IF o \in {"pbkdf2", "hash", "hmac"} THEN (IF isEdge THEN "native" ELSE "software")
    ELSE IF o = "aesDecryptSmall" THEN "software" ELSE "native"

\* One flag for both policies: aesEncrypt and aesDecryptLarge follow isEdge too.
backendOneFlag(o) ==
    IF o = "aesDecryptSmall" THEN "software"
    ELSE IF o \in {"rsaEncrypt", "rsaDecrypt"} THEN "native"
    ELSE (IF isEdge THEN "software" ELSE "native")

\* The backend each method uses: `if (this.isEdge)` in pbkdf2, hash and hmac;
\* forge alone in aesDecryptSmall; subtle alone in the others.
backend(o) ==
    IF o \in {"pbkdf2", "hash", "hmac"} THEN (IF isEdge THEN "software" ELSE "native")
    ELSE IF o = "aesDecryptSmall" THEN "software" ELSE "native"

forgeLen(algorithm) == IF algorithm = "sha256" THEN 32 ELSE 64

\* wcLen given in bytes, as forgeLen is.
wcLenInBytes(algorithm) == IF algorithm = "sha256" THEN 32 ELSE 64

wcLen(algorithm) == IF algorithm = "sha256" THEN 256 ELSE 512

(***************************************************************************)
(* The software paths: each runs to completion inside the call.  The value  *)
(* is the steps invoked and the way the promise settles.                    *)
(***************************************************************************)
Ran(steps, settled) == [log |-> steps, outcome |-> settled]

\* Lines 21-27.
pbkdf2Software(a) ==
    LET len == forgeLen(a.algorithm)
        passwordBytes == toByteString(a.password)
        saltBytes == toByteString(a.salt)
        r == forgePbkdf2(passwordBytes, saltBytes, a.iterations, len, a.algorithm, a.fault)
        md == forgeMd(a.algorithm)
    IN  IF r.ok
        THEN Ran(<<Done("software", "pbkdf2", md, len)>>,
                 Resolved(fromByteStringToArray(r.value)))
        ELSE Ran(<<Threw("software", "pbkdf2", md, len, r.error)>>, propagate(r.error))

\* Lines 45-58.  md.update throws on input it refuses.
hashSoftware(a) ==
    LET md == IF a.algorithm = "sha1" THEN "SHA-1"
              ELSE IF a.algorithm = "sha256" THEN "SHA-256" ELSE "SHA-512"
        valueBytes == toByteString(a.value)
        create == Done("software", "md.create", md, 0)
        e == Err("Error", "software", "md.update")
    IN  IF a.fault = "data"
        THEN Ran(<<create, Threw("software", "md.update", md, 0, e)>>, propagate(e))
        ELSE Ran(<<create, Done("software", "md.update", md, 0),
                   Done("software", "md.digest", md, 0)>>,
                 Resolved(fromByteStringToArray(Str(Digest(md, valueBytes.units)))))

\* Lines 65-72.  hmac.start throws on a key it refuses, hmac.update on data.
hmacSoftware(a) ==
    LET valueBytes == toByteString(a.value)
        keyBytes == toByteString(a.key)
        md == forgeMd(a.algorithm)
        create == Done("software", "hmac.create", "none", 0)
        eKey == Err("Error", "software", "hmac.start")
        eData == Err("Error", "software", "hmac.update")
    IN  IF a.fault = "key"
        THEN Ran(<<create, Threw("software", "hmac.start", md, 0, eKey)>>, propagate(eKey))
        ELSE IF a.fault = "data"
        THEN Ran(<<create, Done("software", "hmac.start", md, 0),
                   Threw("software", "hmac.update", md, 0, eData)>>, propagate(eData))
        ELSE Ran(<<create, Done("software", "hmac.start", md, 0),
                   Done("software", "hmac.update", md, 0),
                   Done("software", "hmac.digest", md, 0)>>,
                 Resolved(fromByteStringToArray(
                     Str(Mac(md, keyBytes.units, valueBytes.units)))))

\* Lines 89-97.  createDecipher throws on a key it refuses.  decipher.finish()
\* returns false when the padding does not check and leaves the output as
\* it stood; its return value is not read, and the output is returned.
aesDecryptSmallSoftware(a) ==
    LET dataBytes == toByteString(a.data)
        ivBytes == toByteString(a.iv)
        keyBytes == toByteString(a.key)
        createBuffer == Done("software", "util.createBuffer", "none", 0)
        eKey == Err("Error", "software", "cipher.createDecipher")
        blocks == CbcBlocks(keyBytes.units, ivBytes.units, dataBytes.units)
        finished == a.fault # "data"
        output == IF finished THEN CbcUnpad(blocks) ELSE blocks
    IN  IF a.fault = "key"
        THEN Ran(<<createBuffer,
                   Threw("software", "cipher.createDecipher", "none", 0, eKey)>>,
                 propagate(eKey))
        ELSE Ran(<<createBuffer,
                   Done("software", "cipher.createDecipher", "none", 0),
                   Done("software", "decipher.start", "none", 0),
                   Done("software", "decipher.update", "none", 0),
                   Step("software", "decipher.finish", "none", 0, 0,
                        IF finished THEN "ok" ELSE "false", NoError),
                   Done("software", "output.getBytes", "none", 0)>>,
                 Resolved(fromByteStringToArray(Str(output))))

software(o, a) ==
    IF o = "pbkdf2" THEN pbkdf2Software(a)
    ELSE IF o = "hash" THEN hashSoftware(a)
    ELSE IF o = "hmac" THEN hmacSoftware(a)
    ELSE aesDecryptSmallSoftware(a)

(***************************************************************************)
(* The native paths: what each method hands to subtle.importKey and to the  *)
(* primitive it awaits next.                                                *)
(***************************************************************************)
None == Buf(<<>>)

ImportKey(format, keyData, name, hash, usage) ==
    [format |-> format, keyData |-> keyData, name |-> name, hash |-> hash, usage |-> usage]

Primitive(step, name, hash, salt, iterations, iv, data, len) ==
    [step |-> step, name |-> name, hash |-> hash, salt |-> salt,
     iterations |-> iterations, iv |-> iv, data |-> data, len |-> len]

\* Lines 40, 79, 84, 101, 112, 123.
importRequest(o, a) ==
    IF o = "pbkdf2" THEN ImportKey("raw", toBuf(a.password), "PBKDF2", "none", "deriveBits")
    ELSE IF o = "hmac"
    THEN ImportKey("raw", a.key, "HMAC", toWebCryptoAlgorithm(a.algorithm), "sign")
    ELSE IF o = "aesEncrypt" THEN ImportKey("raw", a.key, "AES-CBC", "none", "encrypt")
    ELSE IF o = "aesDecryptLarge" THEN ImportKey("raw", a.key, "AES-CBC", "none", "decrypt")
    ELSE IF o = "rsaEncrypt"
    THEN ImportKey("spki", a.publicKey, "RSA-OAEP", toWebCryptoAlgorithm(a.algorithm),
                   "encrypt")
    ELSE ImportKey("pkcs8", a.privateKey, "RSA-OAEP", toWebCryptoAlgorithm(a.algorithm),
                   "decrypt")

\* Lines 29-41, 74-80, 85, 102, 108-113, 119-124.
primitiveRequest(o, a) ==
    IF o = "pbkdf2"
    THEN Primitive("deriveBits", "PBKDF2", toWebCryptoAlgorithm(a.algorithm),
                   toBuf(a.salt), a.iterations, None, None, wcLen(a.algorithm))
    ELSE IF o = "hmac"
    THEN Primitive("sign", "HMAC", toWebCryptoAlgorithm(a.algorithm),
                   None, 0, None, a.value, 0)
    ELSE IF o = "aesEncrypt"
    THEN Primitive("encrypt", "AES-CBC", "none", None, 0, a.iv, a.data, 0)
    ELSE IF o = "aesDecryptLarge"
    THEN Primitive("decrypt", "AES-CBC", "none", None, 0, a.iv, a.data, 0)
    ELSE IF o = "rsaEncrypt"
    THEN Primitive("encrypt", "RSA-OAEP", toWebCryptoAlgorithm(a.algorithm),
                   None, 0, None, a.data, 0)
    ELSE Primitive("decrypt", "RSA-OAEP", toWebCryptoAlgorithm(a.algorithm),
                   None, 0, None, a.data, 0)

\* One key object kept by the service and overwritten by every import.
keyHandleShared(c) == 1

\* The handle importKey resolves with: a new one for every import.  Handle c
\* is the one imported by call c (a call imports once).
keyHandle(c) == c

\* The first key imported is kept and given to every later primitive.
primitiveKeyCached(c, imp) ==
    LET have == {d \in DOMAIN imp : imp[d] # 0}
    IN  imp[CHOOSE d \in have : \A e \in have : d <= e]

\* The handle a method passes to its primitive: its own `const impKey`.
primitiveKey(c, imp) == imp[c]

(***************************************************************************)
(* Inputs.                                                                  *)
(***************************************************************************)
\* "é" as text and the byte 0xE9 as a buffer: the two differ in UTF-8.
Text == Str(<<233>>)

Binary == Buf(<<233>>)

Block == Buf([i \in 1..16 |-> i])

Faults == {"none", "key", "data"}

Credentials ==
    {[password |-> Text, salt |-> Binary, iterations |-> 1],
     [password |-> Binary, salt |-> Text, iterations |-> 5000]}

pbkdf2Args ==
    {[password |-> k.password, salt |-> k.salt, algorithm |-> alg,
      iterations |-> k.iterations, fault |-> f] :
        k \in Credentials, alg \in {"sha256", "sha512"}, f \in Faults}

hashArgs == [value : {Text}, algorithm : {"sha1", "sha256", "sha512"},
             fault : {"none", "data"}]

hmacArgs == [value : {Binary}, key : {Block},
             algorithm : {"sha1", "sha256", "sha512"}, fault : Faults]

aesArgs == [data : {Block}, iv : {Block}, key : {Block}, fault : Faults]

rsaEncryptArgs == [data : {Binary}, publicKey : {Block},
                   algorithm : {"sha1"}, fault : Faults]

rsaDecryptArgs == [data : {Block}, privateKey : {Block},
                   algorithm : {"sha256"}, fault : Faults]

NoArgs == [fault |-> "none"]

(***************************************************************************)
(* Actions.                                                                 *)
(***************************************************************************)
\* The synchronous part of a call: up to its first await, or to its end.
Begin(c, o, a) ==
    /\ pc[c] = "idle"
    /\ \A d \in CallIds : d < c => pc[d] # "idle"
    /\ op' = [op EXCEPT ![c] = o]
    /\ args' = [args EXCEPT ![c] = a]
    /\ IF backend(o) = "software"
       THEN /\ pc' = [pc EXCEPT ![c] = "done"]
            /\ log' = [log EXCEPT ![c] = software(o, a).log]
            /\ outcome' = [outcome EXCEPT ![c] = software(o, a).outcome]
       ELSE IF o = "hash"
       THEN /\ pc' = [pc EXCEPT ![c] = "primitive"]
            /\ log' = [log EXCEPT ![c] =
                   <<Step("native", "digest", toWebCryptoAlgorithm(a.algorithm), 0, 0,
                          "pending", NoError)>>]
            /\ UNCHANGED outcome
       ELSE /\ pc' = [pc EXCEPT ![c] = "importKey"]
            /\ log' = [log EXCEPT ![c] =
                   <<Step("native", "importKey", importRequest(o, a).hash, 0, 0,
                          "pending", NoError)>>]
            /\ UNCHANGED outcome
    /\ UNCHANGED <<isEdge, impKey, handles, bridgeVars>>

pbkdf2(c) == \E a \in pbkdf2Args : Begin(c, "pbkdf2", a)

hash(c) == \E a \in hashArgs : Begin(c, "hash", a)

hmac(c) == \E a \in hmacArgs : Begin(c, "hmac", a)

aesEncrypt(c) == \E a \in aesArgs : Begin(c, "aesEncrypt", a)

aesDecryptSmall(c) == \E a \in aesArgs : Begin(c, "aesDecryptSmall", a)

aesDecryptLarge(c) == \E a \in aesArgs : Begin(c, "aesDecryptLarge", a)

rsaEncrypt(c) == \E a \in rsaEncryptArgs : Begin(c, "rsaEncrypt", a)

rsaDecrypt(c) == \E a \in rsaDecryptArgs : Begin(c, "rsaDecrypt", a)

Settle(steps, result, error) ==
    [steps EXCEPT ![Len(steps)].result = result, ![Len(steps)].error = error]

\* `const impKey = await this.subtle.importKey(...)` settles.  Resolved: the
\* method goes on to invoke its primitive with impKey.  Rejected: the method
\* ends there.
importKeySettled(c) ==
    /\ pc[c] = "importKey"
    /\ LET r == subtleImportKey(importRequest(op[c], args[c]), args[c].fault)
           req == primitiveRequest(op[c], args[c])
           k == keyHandle(c)
           imp == [impKey EXCEPT ![c] = k]
           h == primitiveKey(c, imp)
       IN  IF r.ok
           THEN /\ impKey' = imp
                /\ handles' = [[handles EXCEPT ![k] = r.value] EXCEPT ![h].uses = @ + 1]
                /\ log' = [log EXCEPT ![c] = Append(Settle(@, "ok", NoError),
                             Step("native", req.step, req.hash, h, req.len,
                                  "pending", NoError))]
                /\ pc' = [pc EXCEPT ![c] = "primitive"]
                /\ UNCHANGED outcome
           ELSE /\ log' = [log EXCEPT ![c] = Settle(@, "threw", r.error)]
                /\ outcome' = [outcome EXCEPT ![c] = propagate(r.error)]
                /\ pc' = [pc EXCEPT ![c] = "done"]
                /\ UNCHANGED <<impKey, handles>>
    /\ UNCHANGED <<isEdge, op, args, bridgeVars>>

\* `return await this.subtle.<primitive>(...)` settles.
primitiveSettled(c) ==
    /\ pc[c] = "primitive"
    /\ LET a == args[c]
           last == log[c][Len(log[c])]
           r == IF op[c] = "hash"
                THEN subtleDigest(toWebCryptoAlgorithm(a.algorithm), toBuf(a.value), a.fault)
                ELSE subtlePrimitive(primitiveRequest(op[c], a), handles[last.handle],
                                     a.fault)
       IN  /\ log' = [log EXCEPT ![c] =
                  Settle(@, IF r.ok THEN "ok" ELSE "threw", IF r.ok THEN NoError ELSE r.error)]
           /\ outcome' = [outcome EXCEPT ![c] =
                  IF r.ok THEN Resolved(r.value) ELSE propagate(r.error)]
    /\ pc' = [pc EXCEPT ![c] = "done"]
    /\ UNCHANGED <<isEdge, op, args, impKey, handles, bridgeVars>>

InitFacade ==
    /\ isEdge \in BOOLEAN
    /\ pc = [c \in CallIds |-> "idle"]
    /\ op = [c \in CallIds |-> "none"]
    /\ args = [c \in CallIds |-> NoArgs]
    /\ impKey = [c \in CallIds |-> 0]
    /\ handles = [c \in CallIds |-> NoHandle]
    /\ outcome = [c \in CallIds |-> Pending]
    /\ log = [c \in CallIds |-> <<>>]

InitBridgeIdle ==
    /\ bpc = "off"
    /\ bValue = None
    /\ bString = Str(<<>>)
    /\ bBuf = None
    /\ bBack = None

Init == InitFacade /\ InitBridgeIdle

Next ==
    \E c \in CallIds :
        \/ pbkdf2(c)
        \/ hash(c)
        \/ hmac(c)
        \/ aesEncrypt(c)
        \/ aesDecryptSmall(c)
        \/ aesDecryptLarge(c)
        \/ rsaEncrypt(c)
        \/ rsaDecrypt(c)
        \/ importKeySettled(c)
        \/ primitiveSettled(c)

Spec == Init /\ [][Next]_vars

(***************************************************************************)
(* The byte bridge on its own: toByteString, toBuf and the way back,        *)
(* applied to every text and buffer of the bounded input set.               *)
(***************************************************************************)
SeqsUpTo(S, n) == UNION {[1..k -> S] : k \in 0..n}

\* One code point of each UTF-8 length, and the edges of each length.
CodePoints == {65, 127, 128, 233, 2047, 2048, 8364, 65535, 65536, 128512}

\* Every byte value alone, and the edge values in longer buffers.
EdgeBytes == {0, 127, 128, 255}

BridgeInputs ==
    {Str(u) : u \in SeqsUpTo(CodePoints, MaxLen)}
        \cup {Buf(<<b>>) : b \in 0..255}
        \cup {Buf(b) : b \in SeqsUpTo(EdgeBytes, MaxLen)}

InitBridge ==
    /\ InitFacade
    /\ bpc = {}
    /\ bValue \in BridgeInputs
    /\ bString = Str(<<>>)
    /\ bBuf = None
    /\ bBack = None

applyToByteString ==
    /\ "toByteString" \notin bpc
    /\ bString' = toByteString(bValue)
    /\ bpc' = bpc \cup {"toByteString"}
    /\ UNCHANGED <<bValue, bBuf, bBack, facadeVars>>

applyToBuf ==
    /\ "toBuf" \notin bpc
    /\ bBuf' = toBuf(bValue)
    /\ bpc' = bpc \cup {"toBuf"}
    /\ UNCHANGED <<bValue, bString, bBack, facadeVars>>

applyFromByteString ==
    /\ "toByteString" \in bpc
    /\ "fromByteString" \notin bpc
    /\ bBack' = fromByteStringToArray(bString)
    /\ bpc' = bpc \cup {"fromByteString"}
    /\ UNCHANGED <<bValue, bString, bBuf, facadeVars>>

NextBridge == applyToByteString \/ applyToBuf \/ applyFromByteString

SpecBridge == InitBridge /\ [][NextBridge]_vars

(***************************************************************************)
(* Properties.                                                              *)
(***************************************************************************)
Started(c) == pc[c] # "idle"

Settled(c) == pc[c] = "done"

Steps(c) == {log[c][i] : i \in 1..Len(log[c])}

Backends(c) == {s.backend : s \in Steps(c)}

\* The native key operations: those that import a key and then use it.
UsesNativeKey(c) ==
    /\ Started(c)
    /\ op[c] \in {"pbkdf2", "hmac", "aesEncrypt", "aesDecryptLarge", "rsaEncrypt", "rsaDecrypt"}
    /\ Backends(c) = {"native"}

\* C1: pbkdf2, hash and hmac go to the software backend exactly when isEdge
\* is set and to the native backend otherwise, and a call invokes steps of
\* one backend only.
RuntimeSelectedRouting ==
    \A c \in CallIds :
        (Started(c) /\ op[c] \in {"pbkdf2", "hash", "hmac"}) =>
            /\ isEdge => Backends(c) = {"software"}
            /\ ~isEdge => Backends(c) = {"native"}
            /\ Cardinality(Backends(c)) = 1

RuntimeSelectedWitness ==
    /\ isEdge
    /\ \E c \in CallIds :
        /\ op[c] = "hmac" /\ Settled(c) /\ outcome[c].status = "resolved"
        /\ Backends(c) = {"software"}
    /\ \E c \in CallIds :
        /\ op[c] = "pbkdf2" /\ Settled(c) /\ Backends(c) = {"software"}

\* C2: whatever isEdge is, aesDecryptSmall invokes software steps only, and
\* aesEncrypt, aesDecryptLarge, rsaEncrypt and rsaDecrypt native steps only.
FixedRouting ==
    \A c \in CallIds :
        /\ (Started(c) /\ op[c] = "aesDecryptSmall") => Backends(c) = {"software"}
        /\ (Started(c) /\ op[c] \in {"aesEncrypt", "aesDecryptLarge",
                                     "rsaEncrypt", "rsaDecrypt"})
               => Backends(c) = {"native"}

FixedRoutingWitness ==
    \/ /\ ~isEdge
       /\ \E c \in CallIds :
            op[c] = "aesDecryptSmall" /\ Settled(c) /\ Backends(c) = {"software"}
       /\ \E c \in CallIds : op[c] = "rsaDecrypt" /\ Settled(c)
    \/ /\ isEdge
       /\ \E c \in CallIds :
            op[c] = "aesEncrypt" /\ Settled(c) /\ Backends(c) = {"native"}
       /\ \E c \in CallIds :
            op[c] = "aesDecryptLarge" /\ Settled(c) /\ Backends(c) = {"native"}

PaddingFailureRejects ==
    \A c \in CallIds : \A i \in 1..Len(log[c]) :
        (op[c] = "aesDecryptSmall" /\ log[c][i].step = "decipher.finish"
            /\ log[c][i].result = "false")
            => (Settled(c) /\ outcome[c].status = "rejected")

\* C5: pbkdf2 asks forge for 32 or 64 bytes and subtle for 256 or 512 bits,
\* by the algorithm, and whichever backend ran, a resolved pbkdf2 yields a
\* buffer of 32 bytes for sha256 and 64 bytes for sha512.
Pbkdf2Bytes(algorithm) == IF algorithm = "sha256" THEN 32 ELSE 64

Pbkdf2Length ==
    \A c \in CallIds :
        (Started(c) /\ op[c] = "pbkdf2") =>
            /\ \A s \in Steps(c) :
                /\ s.step = "pbkdf2" => s.len = Pbkdf2Bytes(args[c].algorithm)
                /\ s.step = "deriveBits" => s.len = 8 * Pbkdf2Bytes(args[c].algorithm)
            /\ (Settled(c) /\ outcome[c].status = "resolved") =>
                   Len(outcome[c].value.bytes) = Pbkdf2Bytes(args[c].algorithm)

Pbkdf2LengthWitness ==
    \E c, d \in CallIds :
        /\ op[c] = "pbkdf2" /\ op[d] = "pbkdf2"
        /\ args[c].algorithm = "sha256" /\ args[d].algorithm = "sha512"
        /\ args[c].password # args[d].password
        /\ outcome[c].status = "resolved" /\ outcome[d].status = "resolved"
        /\ Len(outcome[d].value.bytes) = 64

Utf8Len(cp) == IF cp < 128 THEN 1 ELSE IF cp < 2048 THEN 2 ELSE IF cp < 65536 THEN 3 ELSE 4

Canonical(algorithm) ==
    CASE algorithm = "sha1" -> [name |-> "SHA-1", bytes |-> 20]
      [] algorithm = "sha256" -> [name |-> "SHA-256", bytes |-> 32]
      [] algorithm = "sha512" -> [name |-> "SHA-512", bytes |-> 64]

SamePrimitiveOnBothBackends ==
    \A c \in CallIds :
        (Started(c) /\ op[c] \in {"hash", "hmac"}) =>
            /\ \A s \in Steps(c) :
                s.hash # "none" => s.hash = Canonical(args[c].algorithm).name
            /\ \E s \in Steps(c) : s.hash # "none"
            /\ (Settled(c) /\ outcome[c].status = "resolved") =>
                   Len(outcome[c].value.bytes) = Canonical(args[c].algorithm).bytes

SamePrimitiveWitness ==
    \E c, d \in CallIds :
        /\ op[c] = "hash" /\ args[c].algorithm = "sha512"
        /\ op[d] = "hmac" /\ args[d].algorithm = "sha1"
        /\ outcome[c].status = "resolved" /\ outcome[d].status = "resolved"
        /\ Len(outcome[c].value.bytes) = 64 /\ Len(outcome[d].value.bytes) = 20

\* C9: a native key operation invokes importKey first and its primitive
\* second; the primitive is given the handle that very call imported; an
\* imported handle is given to exactly one primitive invocation; and when
\* the import is rejected no primitive is invoked and the call is rejected.
ImportThenPrimitive ==
    /\ \A c \in CallIds :
        UsesNativeKey(c) =>
            /\ Len(log[c]) \in {1, 2}
            /\ log[c][1].step = "importKey"
            /\ Len(log[c]) = 2 =>
                /\ log[c][1].result = "ok"
                /\ log[c][2].step # "importKey"
                /\ log[c][2].handle = impKey[c]
                /\ log[c][2].handle = c
            /\ log[c][1].result = "threw" =>
                /\ Len(log[c]) = 1
                /\ Settled(c) /\ outcome[c].status = "rejected"
            /\ log[c][1].result = "ok" => Len(log[c]) = 2
    /\ \A h \in CallIds :
        handles[h] # NoHandle =>
            /\ handles[h].uses = 1
            /\ Cardinality({c \in CallIds : \E s \in Steps(c) : s.handle = h}) = 1

ImportThenPrimitiveWitness ==
    /\ \E c \in CallIds :
        /\ op[c] = "rsaEncrypt" /\ Settled(c) /\ outcome[c].status = "resolved"
        /\ handles[c].uses = 1
    /\ \E c \in CallIds :
        /\ op[c] = "hmac" /\ Settled(c) /\ Len(log[c]) = 1
        /\ log[c][1].result = "threw"

\* C10: however the calls in flight interleave, a settled call has the
\* outcome it has when run alone on its arguments, and no two calls are
\* given the same key handle.
Alone(o, a) ==
    IF backend(o) = "software" THEN software(o, a).outcome
    ELSE IF o = "hash"
    THEN LET r == subtleDigest(Canonical(a.algorithm).name, toBuf(a.value), a.fault)
         IN  IF r.ok THEN [status |-> "resolved", value |-> r.value]
             ELSE [status |-> "rejected", error |-> r.error]
    ELSE LET k == subtleImportKey(importRequest(o, a), a.fault)
         IN  IF ~k.ok THEN [status |-> "rejected", error |-> k.error]
             ELSE LET r == subtlePrimitive(primitiveRequest(o, a), k.value, a.fault)
                  IN  IF r.ok THEN [status |-> "resolved", value |-> r.value]
                      ELSE [status |-> "rejected", error |-> r.error]

CallsAreIndependent ==
    /\ \A c \in CallIds : Settled(c) => outcome[c] = Alone(op[c], args[c])
    /\ \A c, d \in CallIds :
        (c # d /\ impKey[c] # 0 /\ impKey[d] # 0) => impKey[c] # impKey[d]

CallsAreIndependentWitness ==
    /\ pc[1] = "primitive" /\ op[1] = "pbkdf2"
    /\ Settled(2) /\ op[2] = "aesDecryptLarge"
    /\ Len(log[2]) = 2 /\ outcome[2].status = "rejected"

====
